---- MODULE Spec2Model ----
(***************************************************************************)
(* Model of the piano-sheet-generator frontend session:                    *)
(*   Home (app/page.tsx)            result / error slots                   *)
(*   UploadForm (UploadForm.tsx)    input form, analysis, loading state    *)
(*   SourceSelector, DifficultyTabs the two other screens                  *)
(*   lib/api.ts                     the backend calls                      *)
(* One action is one run-to-completion piece of JavaScript: an event       *)
(* handler up to its first await, the continuation of an await, a timer    *)
(* callback.  React commits the state after each of them, so the screen    *)
(* shown (View) is a function of the state.                                *)
(* A pending timer keeps its delay; timers run in an order that some       *)
(* timing of the events allows (see MayRun).                               *)
(***************************************************************************)
EXTENDS Integers, Sequences, FiniteSets, TLC

VARIABLES
    result,          \* Home: useState<SheetMusicResponse | null>
    error,           \* Home: useState<string | null>
    activeTab,       \* UploadForm: "file" | "youtube"
    isLoading,       \* UploadForm
    loadingMessage,  \* UploadForm
    youtubeUrl,      \* UploadForm: the text of the URL input
    analysis,        \* UploadForm: YouTubeAnalyzeResponse | null
    demucsAvailable, \* UploadForm
    statusCall,      \* the getDemucsStatus() promise of the mount effect
    requests,        \* analysis / transcription calls awaiting their response
    timers,          \* pending setTimeout / setInterval timers, in arming order
    fetches,         \* analysis / transcription calls issued so far
    lastEvent        \* the last submission, choice or answer, with its input

vars == <<result, error, activeTab, isLoading, loadingMessage, youtubeUrl,
          analysis, demucsAvailable, statusCall, requests, timers, fetches,
          lastEvent>>

\* null of the object-valued slots (result, analysis)
NULL == [null |-> TRUE]
\* null of the error slot, and an absent optional string field
NoError == "null"
Undefined == "undefined"

(***************************************************************************)
(* Bounds of the model.                                                    *)
(***************************************************************************)
MaxCovers == 2      \* longest cover list an analysis response carries
MaxFetches == 3     \* analysis / transcription calls issued in one run

(***************************************************************************)
(* Strings.  A text the code inspects character by character (URL, file    *)
(* name) is a sequence of one-character strings.                           *)
(***************************************************************************)
IsSpace(c) == c = " "

RECURSIVE TrimStart(_)
TrimStart(s) ==
    IF s = <<>> THEN s
    ELSE IF IsSpace(Head(s)) THEN TrimStart(Tail(s)) ELSE s

RECURSIVE TrimEnd(_)
TrimEnd(s) ==
    IF s = <<>> THEN s
    ELSE IF IsSpace(s[Len(s)]) THEN TrimEnd(SubSeq(s, 1, Len(s) - 1)) ELSE s

\* the URL taken as typed
TrimNone(s) == s

\* String.prototype.trim
Trim(s) == TrimEnd(TrimStart(s))

\* the /i flag of the file-name pattern
ToLower(c) ==
    CASE c = "M" -> "m"
      [] c = "P" -> "p"
      [] c = "W" -> "w"
      [] c = "A" -> "a"
      [] c = "V" -> "v"
      [] OTHER -> c

EndsWith(s, suffix) ==
    /\ Len(s) >= Len(suffix)
    /\ \A i \in 1..Len(suffix) :
          ToLower(s[Len(s) - Len(suffix) + i]) = suffix[i]

\* file.name.match(/\.(mp3|wav)$/i)
NameMatches(name) ==
    \/ EndsWith(name, <<".", "m", "p", "3">>)
    \/ EndsWith(name, <<".", "w", "a", "v">>)

validTypes == {"audio/mpeg", "audio/wav", "audio/x-wav", "audio/mp3"}

MaxFileBytes == 20 * 1024 * 1024

\* the first guard of handleFile passes
FormatAccepted(file) == file.type \in validTypes \/ NameMatches(file.name)

\* the size limit written as 200 MiB
SizeAccepted200(file) == ~(file.size > 200 * 1024 * 1024)

\* a file of exactly the limit refused
SizeAcceptedStrict(file) == file.size < 20 * 1024 * 1024

\* the second guard of handleFile passes
SizeAccepted(file) == ~(file.size > MaxFileBytes)

(***************************************************************************)
(* Messages of the error slot and labels of the loading screen.            *)
(***************************************************************************)
ErrUnsupportedFormat == "Please upload an MP3 or WAV file"
ErrFileTooLarge == "File size must be 20MB or less"
ErrEmptyUrl == "Please enter a YouTube URL"
ErrUnknown == "unknown error"
ErrTranscribeFallback == "Failed to generate the sheet music"
ErrAnalyzeFallback == "Failed to analyze the video"
ErrTransport == "Failed to fetch"
ErrGeneric == "An error occurred"
ErrAnalysisFailed == "Analysis failed"
BackendDetail == "decode failed"

Label(tag, step, count) == [tag |-> tag, step |-> step, count |-> count]
NoLabel == Label("", 0, 0)
LblAnalyzingAudio == Label("analyzing audio", 0, 0)
LblDetectingNotes == Label("detecting notes", 0, 0)
LblRendering == Label("generating sheet music", 0, 0)
LblAnalyzingVideo == Label("analyzing video", 0, 0)
LblSeparating == Label("separating sources", 0, 0)
LblDownloading == Label("downloading from YouTube", 0, 0)
LblReconciling == Label("reconciling covers", 0, 0)
LblCover(step, count) == Label("downloading covers", step, count)

(***************************************************************************)
(* Inputs: what the user can type or drop, what the backend can answer.    *)
(***************************************************************************)
Urls == { <<>>, <<" ">>, <<" ", "a", " ">>, <<"b">> }

File(type, name, size) == [type |-> type, name |-> name, size |-> size]

Files ==
    { File("audio/mpeg", <<"a", ".", "m", "p", "3">>, 3 * 1024 * 1024),
      File("audio/x-wav", <<"a">>, MaxFileBytes),
      File("", <<"A", ".", "W", "A", "V">>, MaxFileBytes - 1),
      File("audio/mp3", <<"a", ".", "m", "p", "3">>, MaxFileBytes + 1),
      File("video/mp4", <<"a", ".", "M", "p", "3">>, MaxFileBytes + 1),
      File("video/mp4", <<"a", ".", "m", "p", "4">>, MaxFileBytes + 1),
      File("video/mp4", <<"m", "p", "3">>, 1024),
      File("", <<".", "w", "a", "v", "x">>, MaxFileBytes) }

Sheet == [beginner |-> "X:1 b", intermediate |-> "X:1 i",
          advanced |-> "X:1 a", key |-> "C"]

Cover(id) == [video_id |-> id, url |-> <<"https://youtu.be/", id>>]

CoverIds == {"c1", "c2"}

RECURSIVE SeqsUpTo(_, _)
SeqsUpTo(S, n) ==
    IF n = 0 THEN { <<>> }
    ELSE LET shorter == SeqsUpTo(S, n - 1)
         IN  shorter \cup { Append(q, x) : q \in shorter, x \in S }

CoverLists == SeqsUpTo({ Cover(id) : id \in CoverIds }, MaxCovers)

Originals ==
    { [video_id |-> "o", song_title |-> t, artist |-> a] :
        <<t, a>> \in { <<Undefined, "">>, <<"Song", "Artist">> } }

\* bodies of a 2xx answer of /youtube/analyze
AnalyzeBodies ==
    { [original |-> o, piano_covers |-> cs] :
        o \in Originals, cs \in CoverLists }

\* an answer of the backend to one fetch: the fetch rejects (transport
\* failure), or it resolves with a status (ok or not) and a body that
\* res.json() parses (parses = TRUE) or not
Reject == [fetch |-> "rejected"]
Http(ok, parses, body) ==
    [fetch |-> "resolved", ok |-> ok, parses |-> parses, body |-> body]

ErrorAnswers ==
    { Reject,
      Http(FALSE, TRUE, [detail |-> BackendDetail]),
      Http(FALSE, TRUE, [detail |-> ""]),
      Http(FALSE, FALSE, NULL) }

TranscribeAnswers == { Http(TRUE, TRUE, Sheet) } \cup ErrorAnswers

AnalyzeAnswers == { Http(TRUE, TRUE, b) : b \in AnalyzeBodies } \cup ErrorAnswers

StatusAnswers ==
    { Reject, Http(FALSE, FALSE, NULL),
      Http(TRUE, TRUE, [available |-> TRUE, model_name |-> "htdemucs"]),
      Http(TRUE, TRUE, [available |-> FALSE, model_name |-> "htdemucs"]) }

(***************************************************************************)
(* lib/api.ts.  A call either returns a value or throws an Error with a    *)
(* message.                                                                *)
(***************************************************************************)
Return(v) == [threw |-> FALSE, value |-> v]
Throw(m) == [threw |-> TRUE, message |-> m]

\* const error = await res.json().catch(() => ({ detail: ... }));
\* throw new Error(error.detail || fallback)
FailureMessage(answer, fallback) ==
    LET detail == IF answer.parses THEN answer.body.detail ELSE ErrUnknown
    IN  IF detail # "" THEN detail ELSE fallback

ApiCall(answer, fallback) ==
    IF answer.fetch = "rejected" THEN Throw(ErrTransport)
    ELSE IF ~answer.ok THEN Throw(FailureMessage(answer, fallback))
    ELSE Return(answer.body)

transcribeUpload(answer) == ApiCall(answer, ErrTranscribeFallback)

transcribeYoutube(answer) == ApiCall(answer, ErrTranscribeFallback)

analyzeYoutube(answer) == ApiCall(answer, ErrAnalyzeFallback)

\* not in lib/api.ts as given; the same contract as the other calls
transcribeEnsemble(answer) == ApiCall(answer, ErrTranscribeFallback)

\* a non-2xx answer taken as available
getDemucsStatusOptimistic(answer) ==
    IF answer.fetch = "rejected" THEN Throw(ErrTransport)
    ELSE IF ~answer.ok
         THEN Return([available |-> TRUE, model_name |-> "htdemucs"])
    ELSE Return(answer.body)

getDemucsStatus(answer) ==
    IF answer.fetch = "rejected" THEN Throw(ErrTransport)
    ELSE IF ~answer.ok
         THEN Return([available |-> FALSE, model_name |-> "htdemucs"])
    ELSE Return(answer.body)

(***************************************************************************)
(* State.                                                                  *)
(***************************************************************************)
\* the code drops the identifier setTimeout returns
Timeout(ms, label) ==
    [id |-> 0, kind |-> "timeout", delay |-> ms, label |-> label,
     step |-> 0, count |-> 0]

Interval(id, ms, step, count) ==
    [id |-> id, kind |-> "interval", delay |-> ms, label |-> NoLabel,
     step |-> step, count |-> count]

TimerIds == { timers[i].id : i \in 1..Len(timers) }

\* the identifier setTimeout / setInterval hands out next
FreshId(used) == CHOOSE n \in 1..(Cardinality(used) + 1) : n \notin used

Event(op, arg) == [op |-> op, arg |-> arg]

\* page.tsx renders UploadForm only while result is null
Mounted == result = NULL

\* the form left on display while a request is outstanding
ViewWithoutLoading ==
    IF result # NULL THEN "result"
    ELSE IF analysis # NULL THEN "selector"
    ELSE "form"

\* which screen is on display
View ==
    IF result # NULL THEN "result"
    ELSE IF isLoading THEN "loading"
    ELSE IF analysis # NULL THEN "selector"
    ELSE "form"

FormIs(tab, loading, message, url, held, demucs) ==
    /\ activeTab' = tab
    /\ isLoading' = loading
    /\ loadingMessage' = message
    /\ youtubeUrl' = url
    /\ analysis' = held
    /\ demucsAvailable' = demucs

\* the useState initial values of UploadForm
FormInitial == FormIs("file", FALSE, NoLabel, <<>>, NULL, FALSE)

\* The state of UploadForm after a piece of code that has set result' and
\* asked for the given values.  An UploadForm that is, or has just been,
\* unmounted has no state to update; a new mount starts from the initial
\* values.
FormCommit(loading, message, held) ==
    IF result' # NULL \/ result # NULL
    THEN FormInitial
    ELSE FormIs(activeTab, loading, message, youtubeUrl, held, demucsAvailable)

\* the mount effect calls getDemucsStatus again on a new mount
StatusCommit ==
    statusCall' = IF result # NULL /\ result' = NULL
                  THEN [state |-> "pending"]
                  ELSE statusCall

\* Home.handleResult
handleResult(data) ==
    /\ result' = data
    /\ error' = NoError

\* a failure that is not reported to Home
handleErrorSilent(message) == UNCHANGED <<result, error>>

\* Home.handleError
handleError(message) ==
    /\ error' = message
    /\ result' = NULL

Init ==
    /\ result = NULL
    /\ error = NoError
    /\ activeTab = "file"
    /\ isLoading = FALSE
    /\ loadingMessage = NoLabel
    /\ youtubeUrl = <<>>
    /\ analysis = NULL
    /\ demucsAvailable = FALSE
    /\ statusCall = [state |-> "pending"]
    /\ requests = <<>>
    /\ timers = <<>>
    /\ fetches = 0
    /\ lastEvent = Event("mount", NULL)

RemoveAt(s, i) == SubSeq(s, 1, i - 1) \o SubSeq(s, i + 1, Len(s))

\* setState of UploadForm outside the handlers' own commits (timer callbacks,
\* the status effect): nothing to update once unmounted
KeepHome == UNCHANGED <<result, error>>

(***************************************************************************)
(* UploadForm.handleFile, up to its await.                                 *)
(***************************************************************************)
handleFile(file) ==
    /\ lastEvent' = Event("handleFile", file)
    /\ IF ~FormatAccepted(file)
       THEN /\ handleError(ErrUnsupportedFormat)
            /\ FormCommit(isLoading, loadingMessage, analysis)
            /\ UNCHANGED <<requests, timers, fetches>>
       ELSE IF ~SizeAccepted(file)
       THEN /\ handleError(ErrFileTooLarge)
            /\ FormCommit(isLoading, loadingMessage, analysis)
            /\ UNCHANGED <<requests, timers, fetches>>
       ELSE /\ fetches < MaxFetches
            /\ fetches' = fetches + 1
            /\ KeepHome
            /\ FormCommit(TRUE, LblAnalyzingAudio, analysis)
            /\ timers' = timers \o
                    << Timeout(5000, LblDetectingNotes),
                       Timeout(15000, LblRendering) >>
            /\ requests' = Append(requests, [kind |-> "upload", file |-> file])
    /\ StatusCommit

\* onDrop of the drop zone
Drop ==
    /\ View = "form"
    /\ activeTab = "file"
    /\ \E file \in Files : handleFile(file)

\* onClick of the drop zone, then onchange of the file input it creates; the
\* browser's file dialog takes the user's input until it closes, so no other
\* user event comes between the two
Pick ==
    /\ View = "form"
    /\ activeTab = "file"
    /\ \E file \in Files : handleFile(file)

\* the tab buttons
SetActiveTab ==
    /\ View = "form"
    /\ \E tab \in {"file", "youtube"} :
          /\ tab # activeTab
          /\ activeTab' = tab
    /\ UNCHANGED <<result, error, isLoading, loadingMessage, youtubeUrl,
                   analysis, demucsAvailable, statusCall, requests, timers,
                   fetches, lastEvent>>

\* onChange of the URL input
\* a URL input that is also on the source choice screen
TypeUrlOnSelector ==
    /\ View \in {"form", "selector"}
    /\ activeTab = "youtube"
    /\ \E url \in Urls :
          /\ url # youtubeUrl
          /\ youtubeUrl' = url
    /\ UNCHANGED <<result, error, activeTab, isLoading, loadingMessage,
                   analysis, demucsAvailable, statusCall, requests, timers,
                   fetches, lastEvent>>

TypeUrl ==
    /\ View = "form"
    /\ activeTab = "youtube"
    /\ \E url \in Urls :
          /\ url # youtubeUrl
          /\ youtubeUrl' = url
    /\ UNCHANGED <<result, error, activeTab, isLoading, loadingMessage,
                   analysis, demucsAvailable, statusCall, requests, timers,
                   fetches, lastEvent>>

(***************************************************************************)
(* UploadForm.handleAnalyze, up to its first await.                        *)
(***************************************************************************)
handleAnalyze ==
    /\ lastEvent' = Event("handleAnalyze", youtubeUrl)
    /\ IF Trim(youtubeUrl) = <<>>
       THEN /\ handleError(ErrEmptyUrl)
            /\ FormCommit(isLoading, loadingMessage, analysis)
            /\ UNCHANGED <<requests, timers, fetches>>
       ELSE /\ fetches + 1 < MaxFetches   \* room for the ensemble call
            /\ fetches' = fetches + 1
            /\ KeepHome
            /\ FormCommit(TRUE, LblAnalyzingVideo, analysis)
            /\ requests' = Append(requests,
                                  [kind |-> "analyze", url |-> Trim(youtubeUrl)])
            /\ UNCHANGED timers
    /\ StatusCommit

\* onClick of the analyze button
ClickAnalyze ==
    /\ View = "form"
    /\ activeTab = "youtube"
    /\ handleAnalyze

\* onKeyDown of the URL input with key Enter
EnterKey ==
    /\ View = "form"
    /\ activeTab = "youtube"
    /\ handleAnalyze

\* x || ""
OrEmpty(x) == IF x = Undefined \/ x = "" THEN "" ELSE x

\* only the first cover taken
CoverUrlsFirstOnly(covers) == [i \in 1..1 |-> covers[i].url]

\* result.piano_covers.map((c) => c.url)
CoverUrls(covers) == [i \in 1..Len(covers) |-> covers[i].url]

\* a single cover left to the user's choice
HasCoversTwo(body) == Len(body.piano_covers) >= 2

\* the ensemble started whatever the cover list
HasCoversAlways(body) == Len(body.piano_covers) >= 0

\* result.piano_covers.length >= 1
HasCovers(body) == Len(body.piano_covers) >= 1

\* e instanceof Error ? e.message : fallback; what lib/api.ts throws is
\* always an Error
CaughtMessage(thrown, fallback) == thrown.message

\* the finally block without setIsLoading(false)
LoadingKeptAfterFinally == isLoading

\* the finally block of handleAnalyze: setIsLoading(false)
LoadingAfterFinally == FALSE

\* the catch block without setAnalysis(null)
AnalysisKeptAfterCatch == analysis

\* the catch block of handleAnalyze: setAnalysis(null)
AnalysisAfterCatch == NULL

(***************************************************************************)
(* handleAnalyze from the answer of analyzeYoutube to its next await or    *)
(* its end.                                                                *)
(***************************************************************************)
AnalyzeAnswered ==
    \E i \in 1..Len(requests), answer \in AnalyzeAnswers :
      /\ requests[i].kind = "analyze"
      /\ LET call == analyzeYoutube(answer)
             rest == RemoveAt(requests, i)
         IN  IF call.threw
             THEN /\ handleError(CaughtMessage(call, ErrAnalysisFailed))
                  /\ FormCommit(LoadingAfterFinally, NoLabel, AnalysisAfterCatch)
                  /\ requests' = rest
                  /\ UNCHANGED <<timers, fetches>>
                  /\ lastEvent' = Event("analyzeFailed", NULL)
             ELSE IF HasCovers(call.value)
             THEN LET count == Len(call.value.piano_covers)
                      id == FreshId(TimerIds)
                  IN  /\ KeepHome
                      /\ FormCommit(TRUE, LblCover(1, count), call.value)
                      /\ timers' = Append(timers, Interval(id, 30000, 1, count))
                      /\ requests' = Append(rest,
                            [kind |-> "ensemble",
                             urls |-> CoverUrls(call.value.piano_covers),
                             songTitle |-> OrEmpty(call.value.original.song_title),
                             artist |-> OrEmpty(call.value.original.artist),
                             interval |-> id])
                      /\ fetches' = fetches + 1
                      /\ lastEvent' = Event("analyzedWithCovers", NULL)
             ELSE /\ KeepHome
                  /\ FormCommit(LoadingAfterFinally, NoLabel, call.value)
                  /\ requests' = rest
                  /\ UNCHANGED <<timers, fetches>>
                  /\ lastEvent' = Event("analyzedNoCovers", NULL)
      /\ StatusCommit

\* clearInterval(id)
ClearTimer(id) == SelectSeq(timers, LAMBDA t : t.id # id)

(***************************************************************************)
(* handleAnalyze from the answer of transcribeEnsemble to its end.         *)
(***************************************************************************)
EnsembleAnswered ==
    \E i \in 1..Len(requests), answer \in TranscribeAnswers :
      /\ requests[i].kind = "ensemble"
      /\ LET call == transcribeEnsemble(answer)
         IN  IF call.threw
             THEN /\ handleError(CaughtMessage(call, ErrAnalysisFailed))
                  /\ FormCommit(LoadingAfterFinally, NoLabel, AnalysisAfterCatch)
                  /\ UNCHANGED timers
                  /\ lastEvent' = Event("ensembleFailed", NULL)
             ELSE /\ timers' = ClearTimer(requests[i].interval)
                  /\ handleResult(call.value)
                  /\ FormCommit(LoadingAfterFinally, NoLabel, analysis)
                  /\ lastEvent' = Event("ensembleDone", NULL)
      /\ requests' = RemoveAt(requests, i)
      /\ UNCHANGED fetches
      /\ StatusCommit

(***************************************************************************)
(* handleFile from the answer of transcribeUpload to its end.              *)
(***************************************************************************)
UploadAnswered ==
    \E i \in 1..Len(requests), answer \in TranscribeAnswers :
      /\ requests[i].kind = "upload"
      /\ LET call == transcribeUpload(answer)
         IN  IF call.threw
             THEN /\ handleError(CaughtMessage(call, ErrGeneric))
                  /\ lastEvent' = Event("uploadFailed", NULL)
             ELSE /\ handleResult(call.value)
                  /\ lastEvent' = Event("uploadDone", NULL)
      /\ FormCommit(FALSE, NoLabel, analysis)
      /\ requests' = RemoveAt(requests, i)
      /\ UNCHANGED <<timers, fetches>>
      /\ StatusCommit

(***************************************************************************)
(* UploadForm.handleSelectOriginal, up to its await.                       *)
(***************************************************************************)
handleSelectOriginal(mode) ==
    /\ fetches < MaxFetches
    /\ fetches' = fetches + 1
    /\ KeepHome
    /\ FormCommit(TRUE,
                  IF mode = "demucs" THEN LblSeparating ELSE LblDownloading,
                  analysis)
    /\ timers' = timers \o
            << Timeout(10000, LblAnalyzingAudio),
               Timeout(20000, LblDetectingNotes),
               Timeout(30000, LblRendering) >>
    /\ requests' = Append(requests,
          [kind |-> "youtube", url |-> Trim(youtubeUrl), mode |-> mode,
           songTitle |-> IF analysis = NULL THEN ""
                         ELSE OrEmpty(analysis.original.song_title),
           artist |-> IF analysis = NULL THEN ""
                      ELSE OrEmpty(analysis.original.artist)])
    /\ StatusCommit

\* the separation button rendered unconditionally
DemucsAlwaysOffered == TRUE

\* SourceSelector renders the separation button only when demucsAvailable
DemucsOffered == demucsAvailable

\* the "use as is" button of SourceSelector
SelectDirect ==
    /\ View = "selector"
    /\ handleSelectOriginal("direct")
    /\ lastEvent' = Event("selectDirect", NULL)

\* the "separate, then convert" button of SourceSelector
SelectDemucs ==
    /\ View = "selector"
    /\ DemucsOffered
    /\ handleSelectOriginal("demucs")
    /\ lastEvent' = Event("selectDemucs", NULL)

\* UploadForm.handleBack, the "change" button of SourceSelector
\* a back button that also empties the URL field
handleBackClearsUrl ==
    /\ View = "selector"
    /\ analysis' = NULL
    /\ youtubeUrl' = <<>>
    /\ lastEvent' = Event("back", NULL)
    /\ UNCHANGED <<result, error, activeTab, isLoading, loadingMessage,
                   demucsAvailable, statusCall, requests, timers, fetches>>

handleBack ==
    /\ View = "selector"
    /\ analysis' = NULL
    /\ lastEvent' = Event("back", NULL)
    /\ UNCHANGED <<result, error, activeTab, isLoading, loadingMessage,
                   youtubeUrl, demucsAvailable, statusCall, requests, timers,
                   fetches>>

(***************************************************************************)
(* handleSelectOriginal from the answer of transcribeYoutube to its end.   *)
(***************************************************************************)
YoutubeAnswered ==
    \E i \in 1..Len(requests), answer \in TranscribeAnswers :
      /\ requests[i].kind = "youtube"
      /\ LET call == transcribeYoutube(answer)
         IN  IF call.threw
             THEN /\ handleError(CaughtMessage(call, ErrGeneric))
                  /\ lastEvent' = Event("youtubeFailed", NULL)
             ELSE /\ handleResult(call.value)
                  /\ lastEvent' = Event("youtubeDone", NULL)
      /\ FormCommit(FALSE, NoLabel, analysis)
      /\ requests' = RemoveAt(requests, i)
      /\ UNCHANGED <<timers, fetches>>
      /\ StatusCommit

(***************************************************************************)
(* The mount effect: getDemucsStatus().then(s => setDemucsAvailable(...)). *)
(***************************************************************************)
StatusAnswered ==
    /\ statusCall.state = "pending"
    /\ \E answer \in StatusAnswers :
          LET call == getDemucsStatus(answer)
          IN  /\ statusCall' = [state |-> "settled", answer |-> answer]
              /\ demucsAvailable' =
                    IF ~call.threw /\ Mounted THEN call.value.available
                    ELSE demucsAvailable
    /\ UNCHANGED <<result, error, activeTab, isLoading, loadingMessage,
                   youtubeUrl, analysis, requests, timers, fetches,
                   lastEvent>>

(***************************************************************************)
(* Timers.                                                                 *)
(***************************************************************************)
\* The callback of timers[i] may run now: no timer armed before it with a
\* delay at most as long is still pending (that one is due no later, and
\* timers due together run in arming order).
MayRun(i) == \A j \in 1..(i - 1) : timers[j].delay > timers[i].delay

\* the label the interval callback of handleAnalyze sets after step++
IntervalLabel(step, count) ==
    IF step <= count THEN LblCover(step, count) ELSE LblReconciling

\* a setTimeout callback: setLoadingMessage(label)
TimeoutFires ==
    \E i \in 1..Len(timers) :
      /\ MayRun(i)
      /\ timers[i].kind = "timeout"
      /\ loadingMessage' = IF Mounted THEN timers[i].label ELSE loadingMessage
      /\ timers' = RemoveAt(timers, i)
      /\ UNCHANGED <<result, error, activeTab, isLoading, youtubeUrl,
                     analysis, demucsAvailable, statusCall, requests,
                     fetches, lastEvent>>

\* the setInterval callback of handleAnalyze, after which the interval is
\* armed anew, behind the pending timers; step only matters up to count + 1,
\* where it is held
IntervalFires ==
    \E i \in 1..Len(timers) :
      /\ MayRun(i)
      /\ timers[i].kind = "interval"
      /\ LET t == timers[i]
             step == t.step + 1
             label == IntervalLabel(step, t.count)
         IN  /\ loadingMessage' = IF Mounted THEN label ELSE loadingMessage
             /\ timers' = Append(RemoveAt(timers, i),
                    Interval(t.id, t.delay,
                             IF step > t.count THEN t.count + 1 ELSE step,
                             t.count))
      /\ UNCHANGED <<result, error, activeTab, isLoading, youtubeUrl,
                     analysis, demucsAvailable, statusCall, requests,
                     fetches, lastEvent>>

(***************************************************************************)
(* DifficultyTabs: the "convert another" button scrolls the window to the  *)
(* top; it does not call the onReset prop that page.tsx passes.            *)
(***************************************************************************)
ConvertAnother ==
    /\ View = "result"
    /\ lastEvent' = Event("convertAnother", NULL)
    /\ UNCHANGED <<result, error, activeTab, isLoading, loadingMessage,
                   youtubeUrl, analysis, demucsAvailable, statusCall,
                   requests, timers, fetches>>

Next ==
    \/ Drop
    \/ Pick
    \/ SetActiveTab
    \/ TypeUrl
    \/ ClickAnalyze
    \/ EnterKey
    \/ AnalyzeAnswered
    \/ EnsembleAnswered
    \/ UploadAnswered
    \/ SelectDirect
    \/ SelectDemucs
    \/ handleBack
    \/ YoutubeAnswered
    \/ StatusAnswered
    \/ TimeoutFires
    \/ IntervalFires
    \/ ConvertAnother

Spec == Init /\ [][Next]_vars

(***************************************************************************)
(* Properties.                                                             *)
(***************************************************************************)
HeldCovers == IF analysis = NULL THEN <<>> ELSE analysis.piano_covers

InFlight(kind) == { i \in 1..Len(requests) : requests[i].kind = kind }

\* the backend said that separation is available
ReportedAvailable ==
    /\ statusCall.state = "settled"
    /\ statusCall.answer.fetch = "resolved"
    /\ statusCall.answer.ok
    /\ statusCall.answer.body.available

\* C1: an analysis held with one cover or more is never on the source-choice
\* screen: from the step that stores it the ensemble request is outstanding
\* and the loading screen is shown, and once that request is answered the
\* analysis is gone from the form.
C1_CoversGoToEnsemble ==
    /\ View = "selector" => HeldCovers = <<>>
    /\ HeldCovers # <<>> =>
          /\ View = "loading"
          /\ InFlight("ensemble") # {}
    /\ lastEvent.op \in {"ensembleDone", "ensembleFailed"} =>
          View \in {"result", "form"}

C1_Witness ==
    /\ Len(HeldCovers) = 1
    /\ View = "loading"
    /\ InFlight("ensemble") # {}

\* C2: the step that stores an analysis with no cover shows the source-choice
\* screen with no request outstanding; nothing is dispatched while that
\* screen stays, and it is left only by "use original", "separate then
\* transcribe" or "back".
C2_EmptyCoversAwaitChoice ==
    [][ /\ (analysis = NULL /\ analysis' # NULL /\ HeldCovers' = <<>>) =>
              (View' = "selector" /\ requests' = <<>>)
        /\ (View = "selector" /\ View' = "selector") =>
              (fetches' = fetches /\ requests' = <<>>)
        /\ (View = "selector" /\ View' # "selector") =>
              /\ lastEvent'.op \in {"selectDirect", "selectDemucs", "back"}
              /\ lastEvent.op \notin {"selectDirect", "selectDemucs", "back"}
      ]_vars

C2_Witness ==
    /\ View = "selector"
    /\ lastEvent.op = "analyzedNoCovers"
    /\ HeldCovers = <<>>
    /\ requests = <<>>

\* C3: after a transcription request has failed, in any mode, an error is
\* shown, no request is outstanding and the input form is on display.
C3_FailureReturnsToIdle ==
    lastEvent.op \in {"uploadFailed", "youtubeFailed", "ensembleFailed"} =>
        /\ error # NoError
        /\ requests = <<>>
        /\ View = "form"

\* C4: after the ensemble request has failed the error slot holds the
\* reason, the analysis is discarded and no request is outstanding, so no
\* direct or separated transcription follows from the failure.
C4_EnsembleFailureSurfaces ==
    lastEvent.op = "ensembleFailed" =>
        /\ error # NoError
        /\ result = NULL
        /\ analysis = NULL
        /\ requests = <<>>

C4_Witness ==
    /\ lastEvent.op = "ensembleFailed"
    /\ error = BackendDetail
    /\ fetches = 2

\* C5: in Complete, Failed and Idle, that is on the result screen and on the
\* input form, no timer is pending.
C5_NoTimerOutsideLoading ==
    View \in {"result", "form"} => timers = <<>>

\* C6: at most one analysis or transcription request is outstanding, and one
\* is outstanding only while the loading screen is shown.
C6_OneRequestAtATime ==
    /\ Len(requests) <= 1
    /\ requests # <<>> => View = "loading"

C6_Witness ==
    /\ Len(requests) = 1
    /\ fetches = 3
    /\ View = "loading"

\* C7 as claimed: a file of more than 20 MiB is refused with the
\* file-too-large error, whatever its type and name.
C7_LargeFileTooLarge ==
    (lastEvent.op = "handleFile" /\ lastEvent.arg.size > 20971520) =>
        /\ error = ErrFileTooLarge
        /\ requests = <<>>

\* C7 as amended: a file of more than 20 MiB is refused and no request is
\* made; the error is file-too-large when its type is on the allow-list or
\* its name ends in .mp3 or .wav, and unsupported-format otherwise.
C7_LargeFileRefused ==
    (lastEvent.op = "handleFile" /\ lastEvent.arg.size > 20971520) =>
        /\ requests = <<>>
        /\ ~isLoading
        /\ result = NULL
        /\ LET f == lastEvent.arg
               n == Len(f.name)
               ext == IF n >= 4 THEN SubSeq(f.name, n - 3, n) ELSE <<>>
               named == ext \in { <<".", x, y, z>> :
                                    <<x, y, z>> \in
                                       ({"m", "M"} \X {"p", "P"} \X {"3"})
                                       \cup ({"w", "W"} \X {"a", "A"} \X {"v", "V"}) }
               typed == f.type \in {"audio/mpeg", "audio/wav", "audio/x-wav",
                                    "audio/mp3"}
           IN  error = IF typed \/ named THEN ErrFileTooLarge
                       ELSE ErrUnsupportedFormat

C7_Witness ==
    /\ lastEvent.op = "handleFile"
    /\ lastEvent.arg.size > 20971520
    /\ lastEvent.arg.type = "video/mp4"
    /\ error = ErrFileTooLarge

\* C8: on the source-choice screen the separation option is present exactly
\* when the status check has reported available = true, and a separated
\* transcription is outstanding only after such a report.
C8_SeparationOfferedIffReported ==
    /\ View = "selector" => (DemucsOffered <=> ReportedAvailable)
    /\ \A i \in InFlight("youtube") :
          requests[i].mode = "demucs" => ReportedAvailable

C8_Witness ==
    /\ InFlight("youtube") # {}
    /\ requests[1].mode = "demucs"

\* C9: after "convert another" the result and the analysis are null and the
\* input form is on display.
C9_ConvertAnotherResets ==
    lastEvent.op = "convertAnother" =>
        /\ result = NULL
        /\ analysis = NULL
        /\ View = "form"

\* C10: the ensemble request is the only request outstanding and carries the
\* cover URLs of the held analysis, all of them and in its order, with the
\* song title and artist of the original video (empty when absent).
C10_EnsembleCarriesAllCovers ==
    \A i \in InFlight("ensemble") :
        /\ Len(requests) = 1
        /\ analysis # NULL
        /\ Len(HeldCovers) >= 1
        /\ Len(requests[i].urls) = Len(HeldCovers)
        /\ \A k \in 1..Len(HeldCovers) :
              requests[i].urls[k] = HeldCovers[k].url
        /\ requests[i].songTitle =
              (IF analysis.original.song_title = Undefined THEN ""
               ELSE analysis.original.song_title)
        /\ requests[i].artist =
              (IF analysis.original.artist = Undefined THEN ""
               ELSE analysis.original.artist)

C10_Witness ==
    /\ InFlight("ensemble") # {}
    /\ Len(requests[1].urls) = 2
    /\ requests[1].urls[1] = Cover("c2").url
    /\ requests[1].urls[2] = Cover("c1").url
    /\ requests[1].songTitle = "Song"

\* the failure of an analysis or transcription request was the last event
RequestFailed ==
    lastEvent.op \in {"analyzeFailed", "uploadFailed", "youtubeFailed",
                      "ensembleFailed"}

\* C11: after a request has failed the error slot holds the detail message
\* of the backend or one of the generic messages of the client, and no
\* other text.
C11_OnlyDetailOrFallback ==
    RequestFailed =>
        error \in {BackendDetail, ErrUnknown, ErrTranscribeFallback,
                   ErrAnalyzeFallback, ErrGeneric, ErrAnalysisFailed}

\* the status call is settled by a rejected fetch or a non-2xx answer
StatusFailed(call) ==
    /\ call.state = "settled"
    /\ IF call.answer.fetch = "rejected" THEN TRUE ELSE ~call.answer.ok

\* C12: the step in which the status call fails leaves the separation
\* option off and changes nothing else: not the error slot, not the result,
\* not the form, not the outstanding requests.
C12_FailedStatusIsSilent ==
    [][ (statusCall.state = "pending" /\ StatusFailed(statusCall')) =>
            /\ demucsAvailable' = FALSE
            /\ UNCHANGED <<result, error, activeTab, isLoading,
                           loadingMessage, youtubeUrl, analysis, requests,
                           timers, fetches, lastEvent>>
      ]_vars

C12_Witness ==
    /\ StatusFailed(statusCall)
    /\ statusCall.answer.fetch = "rejected"
    /\ View = "selector"
    /\ ~DemucsOffered
    /\ error = NoError

\* C13: of Complete (a result is held), Failed (an error is held) and
\* Analyzing / Transcribing (isLoading) at most one holds.
C13_OneStateActive ==
    /\ ~(result # NULL /\ error # NoError)
    /\ ~(result # NULL /\ isLoading)
    /\ ~(error # NoError /\ isLoading)

\* C14: the file last submitted is accepted exactly when its type is on the
\* allow-list or its name ends in .mp3 or .wav, whatever the case, and its
\* size is at most 20 MiB; accepted, it is the subject of the one request
\* outstanding, an upload; refused, nothing is outstanding, the form is not
\* loading and holds no analysis, and the error says why.
C14_FileAcceptedIff ==
    lastEvent.op = "handleFile" =>
        LET f == lastEvent.arg
            n == Len(f.name)
            ext == IF n >= 4 THEN SubSeq(f.name, n - 3, n) ELSE <<>>
            named == ext \in { <<".", x, y, z>> :
                                 <<x, y, z>> \in
                                    ({"m", "M"} \X {"p", "P"} \X {"3"})
                                    \cup ({"w", "W"} \X {"a", "A"} \X {"v", "V"}) }
            typed == f.type \in {"audio/mpeg", "audio/wav", "audio/x-wav",
                                 "audio/mp3"}
            small == f.size <= 20971520
        IN  IF (typed \/ named) /\ small
            THEN /\ requests = << [kind |-> "upload", file |-> f] >>
                 /\ InFlight("analyze") = {}
                 /\ isLoading
            ELSE /\ requests = <<>>
                 /\ ~isLoading
                 /\ analysis = NULL
                 /\ error = IF typed \/ named THEN ErrFileTooLarge
                            ELSE ErrUnsupportedFormat

C14_Witness ==
    /\ lastEvent.op = "handleFile"
    /\ lastEvent.arg.size = 20971520
    /\ lastEvent.arg.type = "audio/x-wav"
    /\ InFlight("upload") # {}
    /\ isLoading

\* C15: an interval armed by handleAnalyze is pending only while the
\* ensemble request it was armed for is outstanding, so that it cannot tick
\* after the request resolved, by failure as well as by success.
C15_IntervalClearedOnResolve ==
    \A i \in 1..Len(timers) :
        timers[i].kind = "interval" =>
            \E r \in InFlight("ensemble") : requests[r].interval = timers[i].id

\* the labels the request schedules for itself
LabelsOf(request) ==
    CASE request.kind = "upload" ->
            {LblAnalyzingAudio, LblDetectingNotes, LblRendering}
      [] request.kind = "analyze" -> {LblAnalyzingVideo}
      [] request.kind = "youtube" ->
            {IF request.mode = "demucs" THEN LblSeparating ELSE LblDownloading,
             LblAnalyzingAudio, LblDetectingNotes, LblRendering}
      [] request.kind = "ensemble" ->
            {LblReconciling} \cup
            { LblCover(n, Len(request.urls)) : n \in 1..Len(request.urls) }

\* C16: with no request outstanding the loading label is empty, and while a
\* request is outstanding the label is one that this request scheduled.
C16_NoStaleLabel ==
    IF requests = <<>>
    THEN loadingMessage = NoLabel
    ELSE \E r \in 1..Len(requests) : loadingMessage \in LabelsOf(requests[r])

\* C17: when the analysis request has failed an error is held, the analysis
\* is null, no request is outstanding and the input form is shown.
C17_AnalysisFailureToIdle ==
    lastEvent.op = "analyzeFailed" =>
        /\ error # NoError
        /\ analysis = NULL
        /\ requests = <<>>
        /\ ~isLoading
        /\ View = "form"

C17_Witness ==
    /\ lastEvent.op = "analyzeFailed"
    /\ error = ErrAnalyzeFallback
    /\ fetches = 1
    /\ View = "form"

\* C18: the back button of the source choice sets the analysis to null and
\* shows the input form, dispatches nothing and changes nothing else of the
\* session; an analysis is only ever obtained from the answer of an analysis
\* request, never from the one discarded.
C18_BackDiscardsOnlyAnalysis ==
    [][ /\ (lastEvent.op # "back" /\ lastEvent'.op = "back") =>
              /\ View = "selector"
              /\ analysis # NULL
              /\ analysis' = NULL
              /\ View' = "form"
              /\ UNCHANGED <<result, error, activeTab, isLoading,
                             loadingMessage, youtubeUrl, demucsAvailable,
                             statusCall, requests, timers, fetches>>
        /\ (analysis = NULL /\ analysis' # NULL) =>
              /\ InFlight("analyze") # {}
              /\ Len(requests') <= Len(requests)
      ]_vars

C18_Witness ==
    /\ lastEvent.op = "back"
    /\ View = "form"
    /\ analysis = NULL
    /\ youtubeUrl = <<"b">>
    /\ requests = <<>>
    /\ fetches = 1

\* C19: the URL last submitted, when every character of it is a space, gives
\* the empty-URL error with nothing outstanding, no loading and no analysis;
\* otherwise exactly one analysis request is outstanding and carries the URL
\* from its first to its last non-space character.
C19_BlankUrlRefusedElseTrimmed ==
    lastEvent.op = "handleAnalyze" =>
        LET u == lastEvent.arg
            inked == { k \in 1..Len(u) : u[k] # " " }
            first == CHOOSE k \in inked : \A j \in inked : k <= j
            last == CHOOSE k \in inked : \A j \in inked : k >= j
        IN  IF inked = {}
            THEN /\ error = ErrEmptyUrl
                 /\ requests = <<>>
                 /\ ~isLoading
                 /\ analysis = NULL
            ELSE /\ requests = << [kind |-> "analyze",
                                   url |-> SubSeq(u, first, last)] >>
                 /\ isLoading

C19_Witness ==
    /\ lastEvent.op = "handleAnalyze"
    /\ lastEvent.arg = <<" ", "a", " ">>
    /\ requests = << [kind |-> "analyze", url |-> <<"a">>] >>
    /\ isLoading

\* C20: while the ensemble request for N covers stays outstanding the label
\* changes only from (i/N) to (i+1/N) and from (N/N) to the reconciling
\* label, and never from the reconciling label to anything else.
C20_CountsThenReconciling ==
    [][ ( /\ InFlight("ensemble") # {}
          /\ requests' = requests
          /\ loadingMessage' # loadingMessage ) =>
            LET count == Len(requests[1].urls)
            IN  \/ \E n \in 1..(count - 1) :
                      /\ loadingMessage = LblCover(n, count)
                      /\ loadingMessage' = LblCover(n + 1, count)
                \/ /\ loadingMessage = LblCover(count, count)
                   /\ loadingMessage' = LblReconciling
      ]_vars

\* the network calls not yet answered, the status call of the mount effect
\* counted with the analysis and transcription requests
CallsInFlight ==
    Len(requests) + (IF statusCall.state = "pending" THEN 1 ELSE 0)

\* C21: counting the status call of the mount effect, at most one network
\* call is outstanding at any time.
C21_OneNetworkOperation == CallsInFlight <= 1

\* the step answers the outstanding request
Resolves ==
    /\ requests # <<>>
    /\ requests' # requests

\* onResult and onError as seen from Home
ResultDelivered == result' # NULL /\ error' = NoError

ErrorDelivered ==
    /\ result' = NULL
    /\ error' # NoError
    /\ lastEvent'.op \in {"analyzeFailed", "uploadFailed", "youtubeFailed",
                          "ensembleFailed"}

NothingDelivered ==
    /\ UNCHANGED <<result, error>>
    /\ lastEvent'.op \notin {"analyzeFailed", "uploadFailed", "youtubeFailed",
                             "ensembleFailed"}

\* C22 as stated: every answer of a request ends the loading state in the
\* same step and delivers exactly one of result and error, the analysis
\* that found no cover delivering neither.
C22_EveryAnswerEndsLoading ==
    [][ Resolves =>
          /\ ~isLoading'
          /\ \/ ResultDelivered
             \/ ErrorDelivered
             \/ /\ requests[1].kind = "analyze"
                /\ analysis' # NULL
                /\ NothingDelivered
      ]_vars

\* C22 amended: the analysis that found covers is answered by the dispatch
\* of the ensemble request, loading kept and nothing delivered; every other
\* answer ends the loading state in the same step and delivers exactly one
\* of result and error, the analysis that found no cover delivering neither;
\* the form is loading only while a request is outstanding.
C22_AnswerEndsLoadingUnlessEnsemble ==
    [][ /\ Resolves =>
          IF requests' # <<>>
          THEN /\ requests[1].kind = "analyze"
               /\ requests'[1].kind = "ensemble"
               /\ Len(requests') = 1
               /\ analysis' # NULL
               /\ analysis'.piano_covers # <<>>
               /\ isLoading'
               /\ NothingDelivered
          ELSE /\ ~isLoading'
               /\ \/ ResultDelivered
                  \/ ErrorDelivered
                  \/ /\ requests[1].kind = "analyze"
                     /\ analysis' # NULL
                     /\ analysis'.piano_covers = <<>>
                     /\ NothingDelivered
        /\ isLoading' => requests' # <<>>
      ]_vars

C22_Witness ==
    /\ lastEvent.op = "analyzedWithCovers"
    /\ InFlight("ensemble") # {}
    /\ isLoading
    /\ result = NULL
    /\ error = NoError

\* C23: an analysis is obtained for the trimmed URL of the field, the field
\* does not change while the analysis is held, and the transcription that a
\* choice dispatches carries the trimmed URL of the field and the mode of
\* the option chosen: direct for the original, demucs for the separation.
C23_ChoiceTargetsAnalysedUrl ==
    [][ /\ (analysis = NULL /\ analysis' # NULL) =>
              /\ requests # <<>>
              /\ requests[1].kind = "analyze"
              /\ requests[1].url = Trim(youtubeUrl)
        /\ (analysis # NULL /\ analysis' # NULL) => youtubeUrl' = youtubeUrl
        /\ (InFlight("youtube") = {} /\ requests' # <<>>
                /\ requests'[1].kind = "youtube") =>
              /\ View = "selector"
              /\ Len(requests') = 1
              /\ requests'[1].url = Trim(youtubeUrl)
              /\ Trim(youtubeUrl) # <<>>
              /\ analysis' = analysis
              /\ lastEvent'.op \in {"selectDirect", "selectDemucs"}
              /\ requests'[1].mode =
                    (IF lastEvent'.op = "selectDirect" THEN "direct"
                     ELSE "demucs")
      ]_vars

C23_Witness ==
    /\ lastEvent.op = "selectDemucs"
    /\ youtubeUrl = <<" ", "a", " ">>
    /\ requests # <<>>
    /\ requests[1].kind = "youtube"
    /\ requests[1].url = <<"a">>
    /\ requests[1].mode = "demucs"

====
